---- MODULE Spec2Model ----
(***************************************************************************)
(* Model of cumulative_publications.py (do_searches, do_plot, the script   *)
(* entry point) and utils.py (search).                                     *)
(*                                                                         *)
(* A Python dict is a sequence of <<key |-> k, value |-> v>> entries in    *)
(* insertion order.  A dict key is a record [kind, n]: kind "int" is the   *)
(* Python integer n, kind "str" is the string str(n) (the decimal          *)
(* rendering of n, which is what json.dump writes for an integer key).     *)
(***************************************************************************)
EXTENDS Integers, Sequences, FiniteSets, TLC

(* ------------------------------ bounds --------------------------------- *)
MaxTechniques == 2
MaxYears == 2
MaxLabels == 2
NumIds == 3
MaxIdList == 2
MaxCount == 2

(* ------------------------- module constants ---------------------------- *)
FNAME_N_IDS == "n_ids.json"
FNAME_QUERIES == "queries.json"
FNAME_PLOT == "cumulative_publications.png"
N_ALLOWED_REQUESTS == 3
\* SAFETY_MARGIN = 0.1 s, counted in tenths of a second
SAFETY_MARGIN == 1
ORGAN == "(kidney* OR renal)"
MODALITY == "MRI"
FirstYear == 1989

TechniqueFragments ==
    << "(diffusion weighted imaging OR diffusion tensor imaging OR intravoxel incoherent motion)",
       "arterial spin label*",
       "blood oxygenation level-dependent",
       "(T1 mapping OR T2 mapping)" >>

LabelTexts ==
    << "Diffusion imaging", "Arterial spin labeling", "BOLD", "T1&T2 mapping" >>

LineStyles == << "-", "--", "-.", ":", ".", "h", "H" >>

IdPool == << "id1", "id2", "id3", "id4", "id5" >>
Ids == { IdPool[i] : i \in 1..NumIds }

(* ------------------------------ helpers -------------------------------- *)
Range(s) == { s[i] : i \in 1..Len(s) }

\* sequences over S of length at most n
SeqUpTo(S, n) == UNION { [1..k -> S] : k \in 0..n }

\* range(FirstYear, FirstYear + n)
YearRange(n) == [ i \in 1..n |-> FirstYear + i - 1 ]

IntKey(n) == [kind |-> "int", n |-> n]
StrKey(n) == [kind |-> "str", n |-> n]

\* d[k] = v on an insertion-ordered dict
DictSet(d, k, v) ==
    IF \E i \in 1..Len(d) : d[i].key = k
    THEN [ i \in 1..Len(d) |-> IF d[i].key = k THEN [key |-> k, value |-> v] ELSE d[i] ]
    ELSE Append(d, [key |-> k, value |-> v])

DictKeys(d) == [ i \in 1..Len(d) |-> d[i].key ]
DictValues(d) == [ i \in 1..Len(d) |-> d[i].value ]

RECURSIVE SumSeq(_)
SumSeq(s) == IF s = <<>> THEN 0 ELSE s[1] + SumSeq(Tail(s))

\* numpy.cumsum
CumSum(s) == [ i \in 1..Len(s) |-> SumSeq(SubSeq(s, 1, i)) ]

\* variant: the year key is written with its last two digits only
JsonDumpDictShortYear(d) ==
    [ i \in 1..Len(d) |-> [key |-> StrKey(d[i].key.n % 100), value |-> d[i].value] ]

\* json.dump of a list of dicts: an integer key is written as its decimal
\* string, values are written as they are
JsonDumpDict(d) ==
    [ i \in 1..Len(d) |-> [key |-> StrKey(d[i].key.n), value |-> d[i].value] ]
JsonDump(l) == [ i \in 1..Len(l) |-> JsonDumpDict(l[i]) ]

\* json.load: a JSON object becomes a dict whose keys are the strings read
JsonLoad(doc) == doc

\* f"{ORGAN} AND {technique} AND {MODALITY} AND {year}[PDAT]"
BuildQuery(technique, year) == << ORGAN, "AND", technique, "AND", MODALITY, "AND", year, "[PDAT]" >>

\* variant: the safety margin left out
SleepDurationNoMargin == [one_over |-> N_ALLOWED_REQUESTS, plus_tenths |-> 0]

\* time.sleep argument: 1/N_ALLOWED_REQUESTS + SAFETY_MARGIN
SleepDuration == [one_over |-> N_ALLOWED_REQUESTS, plus_tenths |-> SAFETY_MARGIN]

NoResults == [Count |-> 0, RetMax |-> 0, IdList |-> <<>>]
NoSleep == [one_over |-> 0, plus_tenths |-> 0]

\* what Entrez.read can hand back: the three fields search reads
Responses ==
    [ Count : 0..MaxCount, RetMax : 0..MaxCount, IdList : SeqUpTo(Ids, MaxIdList) ]

\* variant: the count comparison inverted
SearchOutcomeInvertedCount(r) ==
    IF r.Count < r.RetMax
    THEN [raised |-> TRUE, error |-> "IncompleteResults", ids |-> <<>>]
    ELSE IF Len(r.IdList) # Cardinality(Range(r.IdList))
    THEN [raised |-> TRUE, error |-> "DuplicateIdentifiers", ids |-> <<>>]
    ELSE [raised |-> FALSE, error |-> "none", ids |-> r.IdList]

\* variant: the uniqueness check left out
SearchOutcomeNoUniqueCheck(r) ==
    IF r.Count # r.RetMax
    THEN [raised |-> TRUE, error |-> "IncompleteResults", ids |-> <<>>]
    ELSE [raised |-> FALSE, error |-> "none", ids |-> r.IdList]

\* utils.search after Entrez.read: the two checks and the return
SearchOutcome(r) ==
    IF r.Count # r.RetMax
    THEN [raised |-> TRUE, error |-> "IncompleteResults", ids |-> <<>>]
    ELSE IF Len(r.IdList) # Cardinality(Range(r.IdList))
    THEN [raised |-> TRUE, error |-> "DuplicateIdentifiers", ids |-> <<>>]
    ELSE [raised |-> FALSE, error |-> "none", ids |-> r.IdList]

\* variant: no filtering against the ids already seen
NewIdsNoFilter(ids_, all_ids_) == ids_

\* variant: the two lists swapped in the comprehension
NewIdsSwapped(ids_, all_ids_) == SelectSeq(all_ids_, LAMBDA x : x \notin Range(ids_))

\* [x for x in ids if x not in all_ids]
NewIds(ids_, all_ids_) == SelectSeq(ids_, LAMBDA x : x \notin Range(all_ids_))

\* variant: the list of seen ids carried over from the previous technique
FirstYearSeenCarried(ids_, all_ids_) == all_ids_ \o ids_

\* all_ids = ids in the first-year branch of do_searches
FirstYearSeen(ids_, all_ids_) == ids_

\* variant: only too many labels are rejected
LabelsMismatchOnlyMore(labels, n_ids_) == Len(labels) > Len(n_ids_)

\* len(PLOT_LABELS) != len(n_ids)
LabelsMismatch(labels, n_ids_) == Len(labels) # Len(n_ids_)

(* ------------------------------- state --------------------------------- *)
VARIABLES
    TECHNIQUE, YEARS, PLOT_LABELS,   \* configuration
    pc, error,                       \* position of the script, uncaught error
    n_ids, queries, query_ct,        \* do_searches accumulators
    t_iter, y_iter,                  \* positions of the two for loops
    technique, year_index, year, query,
    results,                         \* search: parsed backend response
    ids, all_ids,
    cdict_n_ids, cdict_queries,      \* [bound, d]: unbound until first assigned
    files,                           \* files written in the current directory
    loaded,                          \* do_plot: n_ids read back
    i_label, draw_calls,             \* do_plot: loop position, plotting calls made
    n_search_calls, pauses_since, last_sleep,  \* log of search calls and sleeps
    years_done, ret_earlier          \* per technique: years recorded, ids returned

vars == << TECHNIQUE, YEARS, PLOT_LABELS, pc, error, n_ids, queries, query_ct,
           t_iter, y_iter, technique, year_index, year, query, results, ids,
           all_ids, cdict_n_ids, cdict_queries, files, loaded, i_label,
           draw_calls, n_search_calls, pauses_since, last_sleep, years_done,
           ret_earlier >>

config == << TECHNIQUE, YEARS, PLOT_LABELS >>
search_log == << n_search_calls, pauses_since, last_sleep >>
plot_vars == << loaded, i_label, draw_calls >>
loop_locals == << technique, year_index, year, query >>

Unbound == [bound |-> FALSE, d |-> <<>>]
Bound(d) == [bound |-> TRUE, d |-> d]

NoFile == [exists |-> FALSE, doc |-> <<>>]

Init ==
    /\ TECHNIQUE \in { SubSeq(TechniqueFragments, 1, n) : n \in 0..MaxTechniques }
    /\ YEARS \in { YearRange(n) : n \in 0..MaxYears }
    /\ PLOT_LABELS \in { SubSeq(LabelTexts, 1, n) : n \in 0..MaxLabels }
    /\ pc = "main"
    /\ error = "none"
    /\ n_ids = <<>> /\ queries = <<>> /\ query_ct = 0
    /\ t_iter = 0 /\ y_iter = 0
    /\ technique = "" /\ year_index = 0 /\ year = 0 /\ query = <<>>
    /\ results = NoResults
    /\ ids = <<>> /\ all_ids = <<>>
    /\ cdict_n_ids = Unbound /\ cdict_queries = Unbound
    /\ files = [n_ids |-> NoFile, queries |-> NoFile, plot |-> NoFile]
    /\ loaded = <<>> /\ i_label = 0 /\ draw_calls = <<>>
    /\ n_search_calls = 0 /\ pauses_since = 0 /\ last_sleep = NoSleep
    /\ years_done = 0 /\ ret_earlier = {}

\* variant: the error is noted and the script goes on to save what it has
RaiseAndSave(e) == pc' = "save" /\ error' = e

\* an uncaught exception ends the script
Raise(e) == pc' = "raised" /\ error' = e

(* ----------------------------- do_searches ----------------------------- *)
\* __main__ calls do_searches; lines 98-104
DoSearchesBegin ==
    /\ pc = "main"
    /\ n_ids' = <<>> /\ queries' = <<>> /\ query_ct' = 0
    /\ pc' = "tech_loop"
    /\ UNCHANGED << config, error, t_iter, y_iter, loop_locals, results, ids,
                    all_ids, cdict_n_ids, cdict_queries, files, plot_vars,
                    search_log, years_done, ret_earlier >>

\* for technique in TECHNIQUE
TechniqueLoop ==
    /\ pc = "tech_loop"
    /\ IF t_iter < Len(TECHNIQUE)
       THEN /\ t_iter' = t_iter + 1
            /\ technique' = TECHNIQUE[t_iter + 1]
            /\ y_iter' = 0
            /\ years_done' = 0 /\ ret_earlier' = {}
            /\ pc' = "year_loop"
       ELSE /\ pc' = "save"
            /\ UNCHANGED << t_iter, technique, y_iter, years_done, ret_earlier >>
    /\ UNCHANGED << config, error, n_ids, queries, query_ct, year_index, year,
                    query, results, ids, all_ids, cdict_n_ids, cdict_queries,
                    files, plot_vars, search_log >>

\* for year_index, year in enumerate(YEARS); query_ct += 1; build the query
YearLoop ==
    /\ pc = "year_loop"
    /\ IF y_iter < Len(YEARS)
       THEN /\ year_index' = y_iter
            /\ year' = YEARS[y_iter + 1]
            /\ y_iter' = y_iter + 1
            /\ query_ct' = query_ct + 1
            /\ query' = BuildQuery(technique, YEARS[y_iter + 1])
            /\ pc' = "esearch"
       ELSE /\ pc' = "append"
            /\ UNCHANGED << year_index, year, y_iter, query_ct, query >>
    /\ UNCHANGED << config, error, n_ids, queries, t_iter, technique, results,
                    ids, all_ids, cdict_n_ids, cdict_queries, files, plot_vars,
                    search_log, years_done, ret_earlier >>

(* ------------------------------- search -------------------------------- *)
\* search(): Entrez.esearch + Entrez.read hand back a response
EsearchResponds ==
    /\ pc = "esearch"
    /\ \E r \in Responses : results' = r
    /\ n_search_calls' = n_search_calls + 1
    /\ pauses_since' = 0
    /\ pc' = "check"
    /\ UNCHANGED << config, error, n_ids, queries, query_ct, t_iter, y_iter,
                    loop_locals, ids, all_ids, cdict_n_ids, cdict_queries,
                    files, plot_vars, last_sleep, years_done, ret_earlier >>

\* search(): Entrez.esearch or Entrez.read raises (network or parse failure)
EsearchFails ==
    /\ pc = "esearch"
    /\ n_search_calls' = n_search_calls + 1
    /\ pauses_since' = 0
    /\ Raise("BackendFailure")
    /\ UNCHANGED << config, n_ids, queries, query_ct, t_iter, y_iter,
                    loop_locals, results, ids, all_ids, cdict_n_ids,
                    cdict_queries, files, plot_vars, last_sleep, years_done,
                    ret_earlier >>

\* search(): the checks on the response, then ids = search(EMAIL, query)
SearchCheck ==
    /\ pc = "check"
    /\ LET out == SearchOutcome(results) IN
       IF out.raised
       THEN /\ Raise(out.error)
            /\ UNCHANGED << ids, results >>
       ELSE /\ ids' = out.ids
            /\ results' = NoResults
            /\ pc' = "sleep"
            /\ UNCHANGED error
    /\ UNCHANGED << config, n_ids, queries, query_ct, t_iter, y_iter,
                    loop_locals, all_ids, cdict_n_ids, cdict_queries, files,
                    plot_vars, search_log, years_done, ret_earlier >>

\* time.sleep(1/N_ALLOWED_REQUESTS + SAFETY_MARGIN)
Sleep ==
    /\ pc = "sleep"
    /\ pauses_since' = pauses_since + 1
    /\ last_sleep' = SleepDuration
    /\ pc' = "record"
    /\ UNCHANGED << config, error, n_ids, queries, query_ct, t_iter, y_iter,
                    loop_locals, results, ids, all_ids, cdict_n_ids,
                    cdict_queries, files, plot_vars, n_search_calls,
                    years_done, ret_earlier >>

\* if year_index == 0: ... else: ...
Record ==
    /\ pc = "record"
    /\ IF year_index = 0
       THEN /\ all_ids' = FirstYearSeen(ids, all_ids)
            /\ cdict_n_ids' = Bound(<< [key |-> IntKey(year), value |-> Len(ids)] >>)
            /\ cdict_queries' = Bound(<< [key |-> IntKey(year), value |-> query] >>)
       ELSE LET new_ids == NewIds(ids, all_ids) IN
            /\ all_ids' = all_ids \o new_ids
            /\ cdict_n_ids' = Bound(DictSet(cdict_n_ids.d, IntKey(year), Len(new_ids)))
            /\ cdict_queries' = Bound(DictSet(cdict_queries.d, IntKey(year), query))
    /\ years_done' = years_done + 1
    /\ ret_earlier' = ret_earlier \cup Range(ids)
    /\ pc' = "year_loop"
    /\ UNCHANGED << config, error, n_ids, queries, query_ct, t_iter, y_iter,
                    loop_locals, results, ids, files, plot_vars, search_log >>

\* n_ids.append(cdict_n_ids); queries.append(cdict_queries)
AppendDicts ==
    /\ pc = "append"
    /\ IF ~cdict_n_ids.bound
       THEN /\ Raise("UnboundLocalError")
            /\ UNCHANGED << n_ids, queries >>
       ELSE /\ n_ids' = Append(n_ids, cdict_n_ids.d)
            /\ queries' = Append(queries, cdict_queries.d)
            /\ pc' = "tech_loop"
            /\ UNCHANGED error
    /\ UNCHANGED << config, query_ct, t_iter, y_iter, loop_locals, results,
                    ids, all_ids, cdict_n_ids, cdict_queries, files, plot_vars,
                    search_log, years_done, ret_earlier >>

\* json.dump of both lists; do_searches returns and __main__ calls do_plot
Save ==
    /\ pc = "save"
    /\ files' = [files EXCEPT !.n_ids = [exists |-> TRUE, doc |-> JsonDump(n_ids)],
                              !.queries = [exists |-> TRUE, doc |-> JsonDump(queries)]]
    /\ pc' = "plot_load"
    /\ UNCHANGED << config, error, n_ids, queries, query_ct, t_iter, y_iter,
                    loop_locals, results, ids, all_ids, cdict_n_ids,
                    cdict_queries, plot_vars, search_log, years_done,
                    ret_earlier >>

(* ------------------------------- do_plot ------------------------------- *)
\* with open(FNAME_N_IDS, 'r') as f: n_ids = json.load(f)
PlotLoad ==
    /\ pc = "plot_load"
    /\ IF files.n_ids.exists
       THEN /\ loaded' = JsonLoad(files.n_ids.doc)
            /\ pc' = "plot_check"
            /\ UNCHANGED error
       ELSE /\ Raise("FileNotFoundError")
            /\ UNCHANGED loaded
    /\ UNCHANGED << config, n_ids, queries, query_ct, t_iter, y_iter,
                    loop_locals, results, ids, all_ids, cdict_n_ids,
                    cdict_queries, files, i_label, draw_calls, search_log,
                    years_done, ret_earlier >>

\* if len(PLOT_LABELS) != len(n_ids): raise; else style cycle and set_context
PlotCheck ==
    /\ pc = "plot_check"
    /\ IF LabelsMismatch(PLOT_LABELS, loaded)
       THEN /\ Raise("ConfigurationMismatch")
            /\ UNCHANGED << draw_calls, i_label >>
       ELSE /\ draw_calls' = Append(draw_calls, [call |-> "set_context"])
            /\ i_label' = 0
            /\ pc' = "plot_line"
            /\ UNCHANGED error
    /\ UNCHANGED << config, n_ids, queries, query_ct, t_iter, y_iter,
                    loop_locals, results, ids, all_ids, cdict_n_ids,
                    cdict_queries, files, loaded, search_log, years_done,
                    ret_earlier >>

\* for i_label, c_label in enumerate(PLOT_LABELS): plt.plot(...)
PlotLine ==
    /\ pc = "plot_line"
    /\ IF i_label < Len(PLOT_LABELS)
       THEN /\ draw_calls' = Append(draw_calls,
                  [call |-> "plot",
                   x |-> DictKeys(loaded[i_label + 1]),
                   y |-> CumSum(DictValues(loaded[i_label + 1])),
                   linestyle |-> LineStyles[(i_label % Len(LineStyles)) + 1],
                   label |-> PLOT_LABELS[i_label + 1]])
            /\ i_label' = i_label + 1
            /\ pc' = "plot_line"
       ELSE /\ pc' = "plot_save"
            /\ UNCHANGED << draw_calls, i_label >>
    /\ UNCHANGED << config, error, n_ids, queries, query_ct, t_iter, y_iter,
                    loop_locals, results, ids, all_ids, cdict_n_ids,
                    cdict_queries, files, loaded, search_log, years_done,
                    ret_earlier >>

\* despine, limits, legend, ticks, labels, tight_layout, savefig
PlotSave ==
    /\ pc = "plot_save"
    /\ draw_calls' = Append(draw_calls, [call |-> "savefig"])
    /\ files' = [files EXCEPT !.plot = [exists |-> TRUE, doc |-> <<>>]]
    /\ pc' = "done"
    /\ UNCHANGED << config, error, n_ids, queries, query_ct, t_iter, y_iter,
                    loop_locals, results, ids, all_ids, cdict_n_ids,
                    cdict_queries, loaded, i_label, search_log, years_done,
                    ret_earlier >>

Next ==
    \/ DoSearchesBegin
    \/ TechniqueLoop
    \/ YearLoop
    \/ EsearchResponds
    \/ EsearchFails
    \/ SearchCheck
    \/ Sleep
    \/ Record
    \/ AppendDicts
    \/ Save
    \/ PlotLoad
    \/ PlotCheck
    \/ PlotLine
    \/ PlotSave

Spec == Init /\ [][Next]_vars

(* ------------------------------ properties ----------------------------- *)
SearchErrors == { "IncompleteResults", "DuplicateIdentifiers", "BackendFailure" }

HasRepeat(s) == \E i, j \in 1..Len(s) : i # j /\ s[i] = s[j]

\* the seen ids of the technique being processed: none before its first year
SeenSet == IF years_done = 0 THEN <<>> ELSE all_ids

\* C1: when a technique's dict is appended to n_ids, the sum of its yearly
\* counts equals the number of distinct ids search returned for that
\* technique over all its years
C1_SumIsDistinctCount ==
    [][ pc = "append" /\ pc' = "tech_loop"
        => SumSeq(DictValues(n_ids'[Len(n_ids')])) = Cardinality(ret_earlier) ]_vars

\* a technique is finished whose second year returned some ids again and some new
C1_Witness ==
    /\ pc = "tech_loop" /\ Len(n_ids) >= 1 /\ Len(n_ids) = t_iter
    /\ Len(YEARS) = 2
    /\ n_ids[t_iter][2].value > 0
    /\ n_ids[t_iter][2].value < Len(ids)

\* C2 (as claimed): with no technique or no year, do_searches raises nothing
\* and writes empty counts and queries files
C2_EmptyInputsNoError ==
    (Len(TECHNIQUE) = 0 \/ Len(YEARS) = 0)
        => /\ error \notin (SearchErrors \cup {"UnboundLocalError"})
           /\ pc \in {"plot_load", "plot_check", "plot_line", "plot_save", "done"}
                => /\ files.n_ids = [exists |-> TRUE, doc |-> <<>>]
                   /\ files.queries = [exists |-> TRUE, doc |-> <<>>]

\* C3 (as claimed): search raises IncompleteResults and returns nothing
\* whenever the reported count exceeds the number of ids in the list
C3_RaisesWhenCountExceedsListLength ==
    [][ pc = "check" /\ results.Count > Len(results.IdList)
        => pc' = "raised" /\ error' = "IncompleteResults" /\ ids' = ids ]_vars

\* C3 (amended): search raises IncompleteResults and returns nothing
\* whenever the reported count exceeds the reported RetMax
C3_RaisesWhenCountExceedsRetMax ==
    [][ pc = "check" /\ results.Count > results.RetMax
        => pc' = "raised" /\ error' = "IncompleteResults" /\ ids' = ids ]_vars

\* search has raised on a response reporting more matches than it returned
C3_Witness ==
    /\ pc = "raised" /\ error = "IncompleteResults"
    /\ results.Count > results.RetMax
    /\ results.RetMax = Len(results.IdList)
    /\ results.IdList # <<>>

\* C4: do_plot raises ConfigurationMismatch whenever the number of labels
\* differs from the number of entries read back, with no plotting call made
\* and no image saved
C4_MismatchBeforeDrawing ==
    /\ [][ pc = "plot_check" /\ Len(PLOT_LABELS) # Len(loaded)
           => /\ pc' = "raised" /\ error' = "ConfigurationMismatch"
              /\ draw_calls' = <<>> /\ ~files'.plot.exists ]_vars
    /\ [](error = "ConfigurationMismatch"
           => pc = "raised" /\ draw_calls = <<>> /\ ~files.plot.exists)

\* do_plot has raised with fewer labels than techniques in the counts file
C4_Witness ==
    /\ pc = "raised" /\ error = "ConfigurationMismatch"
    /\ Len(loaded) > Len(PLOT_LABELS) /\ Len(PLOT_LABELS) > 0

\* C5 (as claimed): search raises DuplicateIdentifiers for every response
\* whose list has a repeat, and every list it returns is free of repeats
C5_RepeatRaisesDuplicate ==
    /\ [][ pc = "check" /\ HasRepeat(results.IdList)
           => pc' = "raised" /\ error' = "DuplicateIdentifiers" ]_vars
    /\ [](~HasRepeat(ids))

\* C5 (amended): search raises for every response whose list has a repeat,
\* with DuplicateIdentifiers when Count equals RetMax and with
\* IncompleteResults (checked first) otherwise; every list it returns is
\* free of repeats
C5_RepeatRaises ==
    /\ [][ pc = "check" /\ HasRepeat(results.IdList)
           => /\ pc' = "raised" /\ ids' = ids
              /\ error' = IF results.Count = results.RetMax
                          THEN "DuplicateIdentifiers" ELSE "IncompleteResults" ]_vars
    /\ [](~HasRepeat(ids))

\* search has raised DuplicateIdentifiers on a list with a repeat
C5_Witness ==
    /\ pc = "raised" /\ error = "DuplicateIdentifiers"
    /\ HasRepeat(results.IdList)

\* C6: when search returned an empty list, the count recorded for the year
\* is 0, the technique's seen ids are unchanged and the run goes on
C6_EmptyYear ==
    [][ pc = "record" /\ ids = <<>>
        => /\ cdict_n_ids'.d[Len(cdict_n_ids'.d)] = [key |-> IntKey(year), value |-> 0]
           /\ SeenSet' = SeenSet
           /\ pc' = "year_loop" /\ error' = "none" ]_vars

\* a later year with an empty result was recorded after a non-empty first year
C6_Witness ==
    /\ pc = "year_loop" /\ years_done = 2 /\ ids = <<>> /\ all_ids # <<>>
    /\ cdict_n_ids.d[2].value = 0

\* C7 (as claimed): the counts read back by do_plot are identical to the
\* counts written, year keys included
C7_RoundTripIdentical ==
    pc = "plot_check" => loaded = n_ids

\* C7 (amended): the counts read back have, per technique, the same counts
\* in the same year order, and each year key comes back as the decimal
\* string of the integer year that was written
C7_RoundTripStringKeys ==
    pc = "plot_check"
        => /\ Len(loaded) = Len(n_ids)
           /\ \A i \in 1..Len(n_ids) :
                /\ Len(loaded[i]) = Len(n_ids[i])
                /\ \A j \in 1..Len(n_ids[i]) :
                     /\ loaded[i][j].value = n_ids[i][j].value
                     /\ n_ids[i][j].key.kind = "int"
                     /\ loaded[i][j].key = StrKey(n_ids[i][j].key.n)

\* two techniques with two years each were written and read back
C7_Witness ==
    /\ pc = "plot_check" /\ Len(loaded) = 2 /\ Len(loaded[1]) = 2
    /\ loaded[1][1].value > 0 /\ loaded[1][2].value > 0

\* C8: the count recorded for a year is the number of ids returned for it
\* that no earlier year of the same technique returned, and the seen ids
\* are then exactly the ids returned for the technique so far
C8_CountsNewIds ==
    [][ pc = "record"
        => /\ cdict_n_ids'.d[Len(cdict_n_ids'.d)] =
                [key |-> IntKey(year), value |-> Cardinality(Range(ids) \ ret_earlier)]
           /\ Range(all_ids') = ret_earlier \cup Range(ids)
           /\ ~HasRepeat(all_ids') ]_vars

\* second technique: years returning <<id1, id2>> then <<id2, id3>> gave
\* counts 2 and 1 and seen ids {id1, id2, id3}
C8_Witness ==
    /\ Len(n_ids) = 2
    /\ DictValues(n_ids[2]) = << 2, 1 >>
    /\ DictValues(n_ids[1]) # << 2, 1 >>
    /\ ids = << IdPool[2], IdPool[3] >>
    /\ all_ids = << IdPool[1], IdPool[2], IdPool[3] >>

\* C9: every search call but the first is preceded, since the previous
\* search call, by exactly one sleep of 1/N_ALLOWED_REQUESTS + SAFETY_MARGIN
C9_OnePauseBetweenSearches ==
    [][ n_search_calls' = n_search_calls + 1 /\ n_search_calls > 0
        => /\ pauses_since = 1
           /\ last_sleep = [one_over |-> N_ALLOWED_REQUESTS, plus_tenths |-> SAFETY_MARGIN] ]_vars

\* the first search of the second technique has been issued
C9_Witness ==
    /\ pc = "check" /\ t_iter = 2 /\ year_index = 0 /\ n_search_calls = 3

\* C10: once a search call has failed the script is stopped for good: no
\* further search call, no counts or queries file, and do_plot not run
C10_SearchFailureStopsRun ==
    /\ [](error \in SearchErrors
           => /\ pc = "raised"
              /\ ~files.n_ids.exists /\ ~files.queries.exists /\ ~files.plot.exists
              /\ loaded = <<>> /\ draw_calls = <<>>)
    /\ [][ (error \in SearchErrors)
           => /\ n_search_calls' = n_search_calls
              /\ files' = files /\ pc' = pc /\ draw_calls' = draw_calls ]_vars

\* the second of four search calls failed
C10_Witness ==
    /\ pc = "raised" /\ error \in SearchErrors
    /\ n_search_calls = 2 /\ Len(TECHNIQUE) * Len(YEARS) = 4
====
